---- MODULE Spec2Model ----
(***************************************************************************)
(* A model of subliminal's NapiProjekt provider                            *)
(* (subliminal/providers/napiprojekt.py): the subhash derivation           *)
(* get_subhash, the content setter of NapiProjektSubtitle and the provider *)
(* object with its session lifecycle, query and list_subtitles.            *)
(*                                                                         *)
(* Python strings and bytes are sequences of one-character strings; Python *)
(* indices are 0-based and are shifted by one where a sequence is read.    *)
(* An Optional value is a sequence of length at most one: <<>> is None.    *)
(***************************************************************************)
EXTENDS Integers, Sequences, FiniteSets, TLC

VARIABLES
    hash,        \* SpecHash: the argument of get_subhash
    edits,       \* SpecHash: how many characters of the base hash were replaced
    subhash,     \* SpecHash: the outcome of get_subhash(hash), <<>> before the call
    ffmpeg_out,  \* SpecContent: what ffmpeg will leave in tmp.srt, <<>> when it fails
    subtitle,    \* SpecContent: a NapiProjektSubtitle object
    assigned,    \* SpecContent: the last assignment to subtitle.content, <<>> before it
    session,     \* Spec: self.session, 0 for None, else the number of the Session object
    sessions,    \* Spec: for each Session object created, how often close() was called on it
    history,     \* Spec: the initialize/terminate calls made on the provider so far
    pc,          \* Spec: the caller is "idle", "listing" inside list_subtitles, or has "returned"
    listing,     \* Spec: the list_subtitles call in progress (or the last one)
    ret          \* Spec: the outcome of the last completed call

vars == <<hash, edits, subhash, ffmpeg_out, subtitle, assigned, session, sessions, history, pc, listing, ret>>

hashVars == <<hash, edits, subhash>>
contentVars == <<ffmpeg_out, subtitle, assigned>>
providerVars == <<session, sessions, history, pc, listing, ret>>

----------------------------------------------------------------------------
(* Python helpers *)

Min(a, b) == IF a < b THEN a ELSE b

\* s[lo:hi] for 0 <= lo <= hi: a slice is clipped to the string, never an error
Slice(s, lo, hi) == SubSeq(s, lo + 1, Min(hi, Len(s)))

LowerHex == <<"0", "1", "2", "3", "4", "5", "6", "7", "8", "9", "a", "b", "c", "d", "e", "f">>
UpperHex == <<"0", "1", "2", "3", "4", "5", "6", "7", "8", "9", "A", "B", "C", "D", "E", "F">>

HexChars == {LowerHex[k] : k \in 1..16} \cup {UpperHex[k] : k \in 1..16}
\* the value of a hex digit of either case
HexValues == [c \in HexChars |-> (CHOOSE k \in 1..16 : LowerHex[k] = c \/ UpperHex[k] = c) - 1]
IsHexChar(c) == c \in HexChars
HexVal(c) == HexValues[c]
IsSpace(c) == c \in {" ", "\n", "\t"}

Ok(v) == [ok |-> TRUE, val |-> v]
ValueError == [ok |-> FALSE, val |-> 0]

\* int(s, 16) for a string of at most two characters: surrounding whitespace is
\* stripped, one sign is accepted, and what is left must be hex digits of
\* either case ("" and a lone sign or blank are a ValueError)
int16(s) ==
    IF Len(s) = 0 THEN ValueError
    ELSE IF Len(s) = 1 THEN
        IF IsHexChar(s[1]) THEN Ok(HexVal(s[1])) ELSE ValueError
    ELSE IF IsHexChar(s[1]) /\ IsHexChar(s[2]) THEN Ok(16 * HexVal(s[1]) + HexVal(s[2]))
    ELSE IF IsSpace(s[1]) /\ IsHexChar(s[2]) THEN Ok(HexVal(s[2]))
    ELSE IF IsHexChar(s[1]) /\ IsSpace(s[2]) THEN Ok(HexVal(s[1]))
    ELSE IF s[1] = "+" /\ IsHexChar(s[2]) THEN Ok(HexVal(s[2]))
    ELSE IF s[1] = "-" /\ IsHexChar(s[2]) THEN Ok(0 - HexVal(s[2]))
    ELSE ValueError

\* "%x" % n: lowercase hexadecimal, "-" before the digits of a negative number
RECURSIVE HexDigitsOf(_)
HexDigitsOf(n) ==
    IF n < 16 THEN <<LowerHex[n + 1]>>
    ELSE Append(HexDigitsOf(n \div 16), LowerHex[(n % 16) + 1])

FormatHex(n) == IF n < 0 THEN <<"-">> \o HexDigitsOf(0 - n) ELSE HexDigitsOf(n)

\* s[-1]
LastChar(s) == s[Len(s)]

----------------------------------------------------------------------------
(* get_subhash *)

idx == <<14, 3, 6, 8, 2>>
mul == <<2, 2, 5, 4, 3>>
add == <<0, 13, 16, 11, 5>>

Returned(v) == [raised |-> "", value |-> v]
Raised(e) == [raised |-> e, value |-> <<>>]

\* a mutant of HashDigit: the last character of the hex string is replaced by the first
HashDigitFirst(v, m) == FormatHex(v * m)[1]

\* ("%x" % (v * m))[-1]
HashDigit(v, m) == LastChar(FormatHex(v * m))

\* a mutant of HashPair: an empty slice is read as zero
HashPairLenient(h, t) == IF t >= Len(h) THEN Ok(0) ELSE int16(Slice(h, t, t + 2))

\* int(hash[t : t + 2], 16)
HashPair(h, t) == int16(Slice(h, t, t + 2))

\* the loop of get_subhash from iteration i (1-based here) on, b the list so far
RECURSIVE SubhashLoop(_, _, _)
SubhashLoop(h, i, b) ==
    IF i > Len(idx) THEN Returned(b)
    ELSE IF idx[i] >= Len(h) THEN Raised("IndexError")
    ELSE LET d == int16(<<h[idx[i] + 1]>>) IN
        IF ~d.ok THEN Raised("ValueError")
        ELSE LET t == add[i] + d.val
                 v == HashPair(h, t)
             IN IF ~v.ok THEN Raised("ValueError")
                ELSE SubhashLoop(h, i + 1, Append(b, HashDigit(v.val, mul[i])))

get_subhash(h) == SubhashLoop(h, 1, <<>>)

----------------------------------------------------------------------------
(* NapiProjektSubtitle *)

\* a mutant of NapiProjektSubtitle: the hash is not stored
NapiProjektSubtitleNoHash(language, h) == [language |-> language, hash |-> <<>>, _content |-> <<>>]

\* NapiProjektSubtitle.__init__
NapiProjektSubtitle(language, h) == [language |-> language, hash |-> h, _content |-> <<>>]

\* the characters of s before its first line break
RECURSIVE FirstLine(_)
FirstLine(s) ==
    IF s = <<>> \/ s[1] = "\n" THEN <<>> ELSE <<s[1]>> \o FirstLine(Tail(s))

\* re.sub(r"^\/(.*)", r"<i>\1<\/i>", s): without re.MULTILINE "^" matches at
\* the start of the string only and "." stops at a line break; in the
\* replacement "\/" is no known escape and is kept as backslash, slash
SubItalics(s) ==
    IF s # <<>> /\ s[1] = "/"
    THEN LET rest == FirstLine(Tail(s)) IN
         <<"<", "i", ">">> \o rest \o <<"<", "\\", "/", "i", ">">>
             \o SubSeq(s, Len(rest) + 2, Len(s))
    ELSE s

\* re.sub(r"\\r", r"", s): every backslash followed by "r" is deleted, in one
\* pass from the left
RECURSIVE SubBackslashR(_)
SubBackslashR(s) ==
    IF Len(s) < 2 THEN s
    ELSE IF s[1] = "\\" /\ s[2] = "r" THEN SubBackslashR(SubSeq(s, 3, Len(s)))
    ELSE <<s[1]>> \o SubBackslashR(Tail(s))

\* the content setter: self is the subtitle, content the Optional payload, out
\* the Optional text ffmpeg leaves in tmp.srt (<<>>: ffmpeg exits non-zero and
\* run() raises). The detection of the payload's encoding and the conversion
\* are the environment's; the text is ASCII here, so its UTF-8 bytes are its
\* characters.
content_setter(self, content, out) ==
    IF content = <<>> THEN [raised |-> "", self |-> self]
    ELSE IF out = <<>> THEN [raised |-> "ffmpeg.Error", self |-> self]
    ELSE [raised |-> "",
          self |-> [self EXCEPT !._content = <<SubBackslashR(SubItalics(out[1]))>>]]

----------------------------------------------------------------------------
(* NapiProjektProvider *)

Sentinel == <<"N", "P", "c", "0">>

\* language.alpha2.upper()
upper(language) == CASE language = "pl" -> "PL" [] language = "en" -> "EN"

\* a mutant of close: the session is left as it is
closeNothing(s) == s

\* Session.close(): one more close of this Session object
close(s) == [s EXCEPT !.closes = @ + 1]

\* a mutant of raise_for_status: the call is left out
raise_for_status_omitted(status) == FALSE

\* r.raise_for_status(): requests raises HTTPError for a 4xx or 5xx status and
\* for no other
raise_for_status(status) == status >= 400 /\ status < 600

\* a mutant of NotFound: the whole body is compared with the sentinel
NotFoundWholeBody(body) == body = Sentinel

\* r.content[:4] == b"NPc0"
NotFound(body) == Slice(body, 0, 4) = Sentinel

QueryRaised(e, request) ==
    [raised |-> e, value |-> <<>>, request |-> request, conversions |-> 0]

\* query(language, hash) on a provider whose self.session is sess (0: None),
\* a Session object closed `closes` times so far; env is what the environment
\* does with the one GET: a transport error, or a response of some status and
\* body, and the Optional text ffmpeg makes of the body
query(sess, closes, language, h, env) ==
    LET t == get_subhash(h) IN
    IF t.raised # "" THEN QueryRaised(t.raised, <<>>)
    ELSE IF sess = 0 THEN QueryRaised("AttributeError", <<>>)
    ELSE
        LET request == <<[session |-> sess, closes |-> closes,
                          l |-> upper(language), f |-> h, t |-> t.value]>>
        IN
        IF env.transport # "ok" THEN QueryRaised("RequestException", request)
        ELSE IF raise_for_status(env.status) THEN QueryRaised("HTTPError", request)
        ELSE IF NotFound(env.body)
        THEN [raised |-> "", value |-> <<>>, request |-> request, conversions |-> 0]
        ELSE
            LET set == content_setter(NapiProjektSubtitle(language, h), <<env.body>>, env.out)
            IN IF set.raised # "" THEN [QueryRaised(set.raised, request) EXCEPT !.conversions = 1]
               ELSE [raised |-> "", value |-> <<set.self>>, request |-> request,
                     conversions |-> 1]

\* a mutant of Propagates: a failed query is caught and counts as absent
PropagatesNever(q) == FALSE

\* an exception raised by a query leaves the list comprehension
Propagates(q) == q.raised # ""

\* a mutant of NotNone: the last result is lost
RECURSIVE NotNoneButLast(_)
NotNoneButLast(inner) ==
    IF Len(inner) <= 1 THEN <<>> ELSE inner[1].value \o NotNoneButLast(Tail(inner))

\* [s for s in inner if s is not None], inner the results of the queries
RECURSIVE NotNone(_)
NotNone(inner) ==
    IF inner = <<>> THEN <<>> ELSE inner[1].value \o NotNone(Tail(inner))

----------------------------------------------------------------------------
(* SpecHash: get_subhash applied to hashes drawn from the base hashes, their
   prefixes and the base hashes with up to MaxEdits characters replaced *)

MaxEdits == 1

HashA ==
    <<"0", "1", "2", "3", "4", "5", "6", "7", "8", "9", "a", "b", "c", "d", "e", "f", "0", "1", "2", "3", "4", "5", "6", "7", "8", "9", "a", "b", "c", "d", "e", "f">>
HashB ==
    <<"a", "1", "b", "2", "c", "3", "f", "4", "e", "5", "f", "6", "a", "1", "b", "2", "c", "3", "d", "4", "e", "5", "f", "6", "a", "1", "b", "2", "c", "3", "d", "4">>
Fixture1 ==
    <<"0", "1", "2", "3", "4", "5", "6", "7", "8", "9", "a", "b", "c", "d", "e", "f">>
Fixture2 ==
    <<"a", "1", "b", "2", "c", "3", "d", "4", "e", "5", "f", "6", "a", "1", "b", "2">>

BaseHashes == {HashA, HashB, Fixture1, Fixture2}
LowerHexChars == {LowerHex[k] : k \in 1..16}
HashChars == LowerHexChars \cup {"F", "g", " ", "-", "+", "_"}

ProviderAtInit ==
    /\ session = 0
    /\ sessions = <<>>
    /\ history = <<>>
    /\ pc = "idle"
    /\ listing = <<>>
    /\ ret = <<>>

ContentIdle ==
    /\ ffmpeg_out = <<>>
    /\ subtitle = NapiProjektSubtitle("pl", HashA)
    /\ assigned = <<>>

InitHash ==
    /\ \E base \in BaseHashes : \E n \in 0..Len(base) : hash = Slice(base, 0, n)
    /\ edits = 0
    /\ subhash = <<>>
    /\ ContentIdle
    /\ ProviderAtInit

\* the caller's hash differs from a base hash in one more character
EditHash(p, c) ==
    /\ subhash = <<>>
    /\ hash \in BaseHashes \/ edits > 0
    /\ edits < MaxEdits
    /\ p < Len(hash)
    /\ hash[p + 1] # c
    /\ hash' = [hash EXCEPT ![p + 1] = c]
    /\ edits' = edits + 1
    /\ UNCHANGED <<subhash, contentVars, providerVars>>

CallGetSubhash ==
    /\ subhash = <<>>
    /\ subhash' = <<get_subhash(hash)>>
    /\ UNCHANGED <<hash, edits, contentVars, providerVars>>

NextHash ==
    \/ \E p \in 0..31, c \in HashChars : EditHash(p, c)
    \/ CallGetSubhash

SpecHash == InitHash /\ [][NextHash]_vars

----------------------------------------------------------------------------
(* Properties of get_subhash, checked under SpecHash *)

Called == subhash # <<>>
IsContentHash32(h) == Len(h) = 32 /\ \A k \in 1..32 : h[k] \in LowerHexChars
\* the offset t of step i (1-based) for a hash whose digit at idx[i] is hex
OffsetOf(h, i) == add[i] + HexVal(h[idx[i] + 1])
LowDigit(n) == LowerHex[(n % 16) + 1]

C2_FixturesRaise ==
    (Called /\ hash \in {Fixture1, Fixture2}) => subhash[1] = Raised("ValueError")

\* C2 witness: get_subhash was called on the second fixture
C2_Witness == Called /\ hash = Fixture2 /\ subhash[1].raised # ""

\* C2 as stated: each fixture yields a string of five lowercase hex characters
C2_FixturesYieldFiveHex ==
    (Called /\ hash \in {Fixture1, Fixture2}) =>
        /\ subhash[1].raised = ""
        /\ Len(subhash[1].value) = 5
        /\ \A i \in 1..Len(subhash[1].value) : subhash[1].value[i] \in LowerHexChars

\* a position p that get_subhash reads lies outside h or holds no hex digit
BadAt(h, p) == p >= Len(h) \/ ~IsHexChar(h[p + 1])
Malformed(h) ==
    \E i \in 1..5 :
        \/ BadAt(h, idx[i])
        \/ BadAt(h, OffsetOf(h, i))
        \/ BadAt(h, OffsetOf(h, i) + 1)

\* C3: get_subhash raises for every malformed hash (one too short for a
\* position it reads, or with a non-hex character at such a position)
C3_MalformedRaises == (Called /\ Malformed(hash)) => subhash[1].raised # ""

----------------------------------------------------------------------------
(* SpecContent: the content setter applied to every text ffmpeg can leave,
   up to MaxTextLen characters of TextChars *)

MaxTextLen == 4
TextChars == {"/", "h", "r", "\\", "\n"}
Texts == UNION {[1..n -> TextChars] : n \in 0..MaxTextLen}
Payload == <<"{", "1", "}", "{", "2", "}", "/", "h">>

InitContent ==
    /\ ffmpeg_out \in {<<>>} \cup {<<t>> : t \in Texts}
    /\ subtitle = NapiProjektSubtitle("pl", HashA)
    /\ assigned = <<>>
    /\ hash = HashA
    /\ edits = 0
    /\ subhash = <<>>
    /\ ProviderAtInit

\* subtitle.content = content
AssignContent(content) ==
    /\ assigned = <<>>
    /\ LET r == content_setter(subtitle, content, ffmpeg_out) IN
        /\ subtitle' = r.self
        /\ assigned' = <<[content |-> content, raised |-> r.raised]>>
    /\ UNCHANGED <<ffmpeg_out, hashVars, providerVars>>

NextContent == \E content \in {<<>>, <<Payload>>} : AssignContent(content)

SpecContent == InitContent /\ [][NextContent]_vars

\* what normalisation (a) asks for: every line that begins with "/" becomes
\* its remainder between <i> and </i>
RECURSIVE ItalicLines(_)
ItalicLines(s) ==
    LET line == FirstLine(s)
        done == IF line # <<>> /\ line[1] = "/"
                THEN <<"<", "i", ">">> \o Tail(line) \o <<"<", "/", "i", ">">>
                ELSE line
    IN IF Len(line) = Len(s) THEN done
       ELSE done \o <<"\n">> \o ItalicLines(SubSeq(s, Len(line) + 2, Len(s)))

Derived ==
    /\ assigned # <<>>
    /\ assigned[1].content # <<>>
    /\ assigned[1].raised = ""

\* C8: after the content setter every line of the converted text that begins
\* with "/" is its remainder wrapped in <i>...</i>, wherever the line stands
\* (stated for texts without a backslash, which normalisation (b) leaves alone)
C8_SlashLinesWrapped ==
    (Derived /\ \A k \in 1..Len(ffmpeg_out[1]) : ffmpeg_out[1][k] # "\\") =>
        subtitle._content = <<ItalicLines(ffmpeg_out[1])>>

----------------------------------------------------------------------------
(* Spec: one provider instance and its single-threaded caller *)

MaxCalls == 3
MaxLangs == 3

Languages == {"pl", "en"}
Statuses == {200, 304, 404}
Bodies ==
    {<<>>, <<"N", "P", "c">>, Sentinel, Sentinel \o <<"{", "1", "}">>,
     <<"{">> \o Sentinel, Payload}
FfmpegOuts == {<<>>, <<<<"/", "h", "\n", "/", "h">>>>}
TransportError == [transport |-> "error", status |-> 0, body |-> <<>>, out |-> <<>>]
Envs ==
    {TransportError} \cup
    [transport : {"ok"}, status : Statuses, body : Bodies, out : FfmpegOuts]

\* the videos of the caller: video.hashes with a well-formed napiprojekt hash,
\* with a hash that is too short, and without a napiprojekt hash
Videos ==
    {[hashes |-> [napiprojekt |-> HashA]],
     [hashes |-> [napiprojekt |-> Fixture1]],
     [hashes |-> [opensubtitles |-> HashA]]}
QueryHashes == {HashA, HashB, Fixture1}
LanguageLists == UNION {[1..n -> Languages] : n \in 0..MaxLangs}

Closes(sess) == IF sess = 0 THEN 0 ELSE sessions[sess].closes

Init ==
    /\ ProviderAtInit
    /\ ContentIdle
    /\ hash = HashA
    /\ edits = 0
    /\ subhash = <<>>

\* initialize(): a new Session, its User-Agent header set
Initialize ==
    /\ pc = "idle"
    /\ Len(history) < MaxCalls
    /\ sessions' = Append(sessions, [closes |-> 0, headers |-> {"User-Agent"}])
    /\ session' = Len(sessions) + 1
    /\ history' = Append(history, "initialize")
    /\ ret' = <<[op |-> "initialize", raised |-> ""]>>
    /\ pc' = "returned"
    /\ UNCHANGED <<listing, hashVars, contentVars>>

\* terminate(): self.session.close()
Terminate ==
    /\ pc = "idle"
    /\ Len(history) < MaxCalls
    /\ history' = Append(history, "terminate")
    /\ IF session = 0
       THEN /\ ret' = <<[op |-> "terminate", raised |-> "AttributeError"]>>
            /\ UNCHANGED sessions
       ELSE /\ sessions' = [sessions EXCEPT ![session] = close(@)]
            /\ ret' = <<[op |-> "terminate", raised |-> ""]>>
    /\ pc' = "returned"
    /\ UNCHANGED <<session, listing, hashVars, contentVars>>

\* query(language, h), called by the caller itself
Query(language, h, env) ==
    /\ pc = "idle"
    /\ LET q == query(session, Closes(session), language, h, env) IN
        ret' = <<[op |-> "query", after |-> Len(history), language |-> language,
                  hash |-> h, env |-> IF q.request = <<>> THEN <<>> ELSE <<env>>,
                  raised |-> q.raised, value |-> q.value, request |-> q.request,
                  conversions |-> q.conversions]>>
    /\ pc' = "returned"
    /\ UNCHANGED <<session, sessions, history, listing, hashVars, contentVars>>

\* list_subtitles(video, languages) is entered
ListBegin(video, languages) ==
    /\ pc = "idle"
    /\ pc' = "listing"
    /\ listing' = <<[video |-> video, languages |-> languages, queries |-> <<>>,
                     result |-> <<>>]>>
    /\ UNCHANGED <<ret, session, sessions, history, hashVars, contentVars>>

\* the inner comprehension takes the next language: video.hashes["napiprojekt"]
\* is looked up and query is called; an exception ends list_subtitles
ListQuery(env) ==
    /\ pc = "listing"
    /\ LET call == listing[1]
           k == Len(call.queries) + 1
       IN
        /\ k <= Len(call.languages)
        /\ IF "napiprojekt" \notin DOMAIN call.video.hashes
           THEN /\ listing' = <<[call EXCEPT !.result = <<Raised("KeyError")>>]>>
                /\ ret' = <<[op |-> "list_subtitles", raised |-> "KeyError", value |-> <<>>]>>
                /\ pc' = "returned"
           ELSE LET l == call.languages[k]
                    h == call.video.hashes.napiprojekt
                    q == query(session, Closes(session), l, h, env)
                    logged == Append(call.queries,
                                     [language |-> l, hash |-> h, raised |-> q.raised,
                                      value |-> q.value, request |-> q.request])
                IN IF Propagates(q)
                   THEN /\ listing' = <<[call EXCEPT !.queries = logged,
                                                     !.result = <<Raised(q.raised)>>]>>
                        /\ ret' = <<[op |-> "list_subtitles", raised |-> q.raised,
                                     value |-> <<>>]>>
                        /\ pc' = "returned"
                   ELSE /\ listing' = <<[call EXCEPT !.queries = logged]>>
                        /\ UNCHANGED <<ret, pc>>
    /\ UNCHANGED <<session, sessions, history, hashVars, contentVars>>

\* every language was queried: the outer comprehension drops the None results
ListReturn ==
    /\ pc = "listing"
    /\ LET call == listing[1] IN
        /\ Len(call.queries) = Len(call.languages)
        /\ listing' = <<[call EXCEPT !.result = <<Returned(NotNone(call.queries))>>]>>
        /\ ret' = <<[op |-> "list_subtitles", raised |-> "",
                     value |-> NotNone(call.queries)]>>
    /\ pc' = "returned"
    /\ UNCHANGED <<session, sessions, history, hashVars, contentVars>>

\* the caller has taken the outcome of its call and goes on
Resume ==
    /\ pc = "returned"
    /\ pc' = "idle"
    /\ ret' = <<>>
    /\ listing' = <<>>
    /\ UNCHANGED <<session, sessions, history, hashVars, contentVars>>

Next ==
    \/ Initialize
    \/ Terminate
    \/ \E language \in Languages, h \in QueryHashes, env \in Envs : Query(language, h, env)
    \/ \E video \in Videos, languages \in LanguageLists : ListBegin(video, languages)
    \/ \E env \in Envs : ListQuery(env)
    \/ ListReturn
    \/ Resume

Spec == Init /\ [][Next]_vars

----------------------------------------------------------------------------
(* Properties of query, checked under Spec *)

\* the caller's own query call has returned, and its GET got a response
Responded ==
    /\ ret # <<>>
    /\ ret[1].op = "query"
    /\ ret[1].env # <<>>
    /\ ret[1].env[1].transport = "ok"
Response == ret[1].env[1]
StartsWithSentinel(body) == Len(body) >= 4 /\ SubSeq(body, 1, 4) = Sentinel
Absent == ret[1].raised = "" /\ ret[1].value = <<>> /\ ret[1].conversions = 0

\* C4 as amended: for any response that passes the status check (a status
\* that is neither 4xx nor 5xx) and whose body begins with "NPc0", query
\* returns None whatever bytes follow: no error, no record, no conversion.
C4_SentinelIsAbsent ==
    (Responded /\ Response.status \notin 400..599 /\ StartsWithSentinel(Response.body))
        => Absent

\* C4 witness: a passing response with bytes after the sentinel was answered with None
C4_Witness ==
    /\ Responded
    /\ Response.status \notin 400..599
    /\ StartsWithSentinel(Response.body)
    /\ Len(Response.body) > 4
    /\ Absent

\* C4 as stated: any response whose body begins with "NPc0" gives None, without error
C4_SentinelAlwaysAbsent == (Responded /\ StartsWithSentinel(Response.body)) => Absent

\* the record query returns is one of the request's language and hash, its content derived
RecordOfRequest ==
    /\ ret[1].raised = ""
    /\ Len(ret[1].value) = 1
    /\ ret[1].value[1].language = ret[1].language
    /\ ret[1].value[1].hash = ret[1].hash
    /\ ret[1].value[1]._content # <<>>
    /\ ret[1].conversions = 1

\* C5 as amended: for a response that passes the status check and whose body
\* does not begin with the sentinel (bodies shorter than four bytes included),
\* query returns a record of the request's hash and language with derived
\* content when the conversion succeeds, and raises the conversion's error,
\* returning no record, when it fails.
C5_PayloadBecomesRecord ==
    (Responded /\ Response.status \notin 400..599 /\ ~StartsWithSentinel(Response.body)) =>
        IF Response.out = <<>>
        THEN ret[1].raised = "ffmpeg.Error" /\ ret[1].value = <<>>
        ELSE RecordOfRequest

\* C5 witness: a body shorter than four bytes became a record
C5_Witness ==
    /\ Responded
    /\ Len(Response.body) < 4
    /\ RecordOfRequest

\* C5 as stated: any body that does not begin with the sentinel gives a record
C5_PayloadAlwaysRecord ==
    (Responded /\ ~StartsWithSentinel(Response.body)) => RecordOfRequest

HttpError == ret[1].raised = "HTTPError" /\ ret[1].value = <<>> /\ ret[1].conversions = 0

\* C6 as amended: whenever the GET gets a 4xx or 5xx status, query raises the
\* HTTP error to its caller, whatever the body is (also one that begins with
\* "NPc0"): neither None nor a record is returned and nothing is converted.
C6_ErrorStatusRaises == (Responded /\ Response.status \in 400..599) => HttpError

\* C6 witness: an error status whose body begins with the sentinel was raised
C6_Witness ==
    /\ Responded
    /\ Response.status \in 400..599
    /\ StartsWithSentinel(Response.body)
    /\ HttpError

\* C6 as stated: every status that is not a success (2xx) status makes query fail
C6_NonSuccessRaises ==
    (Responded /\ Response.status \notin 200..299) => ret[1].raised # ""

----------------------------------------------------------------------------
(* Properties of list_subtitles, checked under Spec *)

ListEnded == listing # <<>> /\ listing[1].result # <<>>
\* the indices of the queries that returned a record
Hits(queries) == {k \in 1..Len(queries) : queries[k].value # <<>>}

\* C7: when every per-language query completes without error, list_subtitles
\* has made exactly one query per element of languages, in order and each
\* with the video's "napiprojekt" hash, and returns exactly the non-absent
\* results in the order of the languages.
C7_ListIsFilteredQueries ==
    (ListEnded /\ listing[1].result[1].raised = "") =>
        LET call == listing[1]
            out == call.result[1].value
            hits == Hits(call.queries)
        IN
        /\ Len(call.queries) = Len(call.languages)
        /\ \A k \in 1..Len(call.queries) :
            /\ call.queries[k].language = call.languages[k]
            /\ call.queries[k].hash = call.video.hashes.napiprojekt
        /\ Len(out) = Cardinality(hits)
        /\ \A k \in hits :
            out[Cardinality({j \in hits : j <= k})] = call.queries[k].value[1]
        /\ ret = <<[op |-> "list_subtitles", raised |-> "", value |-> out]>>

\* C7 witness: three languages were queried, the second absent, two records returned
C7_Witness ==
    /\ ListEnded
    /\ listing[1].result[1].raised = ""
    /\ Len(listing[1].languages) = 3
    /\ Hits(listing[1].queries) = {1, 3}
    /\ listing[1].languages[1] # listing[1].languages[3]
    /\ Len(listing[1].result[1].value) = 2

\* C10: if the query at position k fails, list_subtitles raises that failure
\* and returns nothing, and no query is made for a language after position k.
C10_FirstFailureAborts ==
    listing # <<>> =>
        \A k \in 1..Len(listing[1].queries) :
            listing[1].queries[k].raised # "" =>
                /\ k = Len(listing[1].queries)
                /\ pc = "returned"
                /\ listing[1].result = <<Raised(listing[1].queries[k].raised)>>
                /\ ret = <<[op |-> "list_subtitles",
                            raised |-> listing[1].queries[k].raised, value |-> <<>>]>>

\* C10 witness: the second of three queries failed after the first gave a record
C10_Witness ==
    /\ ListEnded
    /\ Len(listing[1].languages) = 3
    /\ Len(listing[1].queries) = 2
    /\ listing[1].queries[1].value # <<>>
    /\ listing[1].queries[2].raised = "ffmpeg.Error"
    /\ ret[1].raised = "ffmpeg.Error"

----------------------------------------------------------------------------
(* Properties of the session lifecycle, checked under Spec *)

\* initialize and terminate were called in turn, initialize first
Alternating(h) ==
    \A k \in 1..Len(h) : h[k] = IF k % 2 = 1 THEN "initialize" ELSE "terminate"
Queried == ret # <<>> /\ ret[1].op = "query"

\* C9 as amended: over any sequence of calls in which initialize and terminate
\* alternate, initialize first, every session opened by initialize is closed
\* exactly once, by the terminate that follows it (the session of a last
\* initialize without its terminate is still open); a query made after an
\* initialize and before its terminate sends its request on that open
\* session, and a query before the first initialize sends none. The provider
\* does not enforce the order of the calls.
C9_ScopedWhenAlternating ==
    Alternating(history) =>
        /\ Len(sessions) = (Len(history) + 1) \div 2
        /\ session = Len(sessions)
        /\ \A k \in 1..Len(sessions) :
            sessions[k].closes =
                IF k < Len(sessions) \/ Len(history) % 2 = 0 THEN 1 ELSE 0
        /\ (Queried /\ ret[1].after % 2 = 1 /\ ret[1].request # <<>>) =>
            /\ ret[1].request[1].session = session
            /\ ret[1].request[1].closes = 0
        /\ (Queried /\ ret[1].after = 0) => ret[1].request = <<>>

\* C9 witness: after initialize, terminate, initialize a query used the second session
C9_Witness ==
    /\ history = <<"initialize", "terminate", "initialize">>
    /\ sessions[1].closes = 1
    /\ Queried
    /\ ret[1].request # <<>>
    /\ ret[1].request[1].session = 2

\* C9 as stated: over any sequence of calls no session is closed twice, none
\* is left unclosed after the last terminate, and no query uses a session
\* that is not open
C9_ScopedAlways ==
    /\ \A k \in 1..Len(sessions) : sessions[k].closes <= 1
    /\ (history # <<>> /\ history[Len(history)] = "terminate") =>
        \A k \in 1..Len(sessions) : sessions[k].closes = 1
    /\ (Queried /\ ret[1].request # <<>>) => ret[1].request[1].closes = 0

====
